---- MODULE Spec2Model ----
(***************************************************************************)
(* Model of the conjugate-update core of myvue-bayes (package              *)
(* distributions: Beta, NormalConjugate, ComputeSummary) and of the        *)
(* ABTest orchestrator (package models) built on it.                       *)
(*                                                                         *)
(* float64 values are modelled as exact rationals extended with the IEEE   *)
(* special values NaN and +/-Inf.  The inputs are small dyadic or          *)
(* small-denominator values, so the only float64 behaviour the model       *)
(* leaves out is rounding.  Signed zero is not modelled: no path of the    *)
(* modelled code divides by a negative zero.                               *)
(***************************************************************************)
EXTENDS Integers, Sequences, FiniteSets

VARIABLES
    prior,      \* the client's prior object (Beta or NormalConjugate), or Nil
    last,       \* record of the last call into package distributions
    nextAddr,   \* next free object address (allocation counter)
    sampleBuf,    \* the client's sample slice, handed to ComputeSummary
    ab,         \* the ABTest object
    added,      \* history: every datum handed to each arm, in call order
    ab0         \* history: the ABTest object as its constructor returned it

vars == <<prior, last, nextAddr, sampleBuf, ab, added, ab0>>

coreVars == <<prior, last, nextAddr, sampleBuf>>
abVars == <<ab, added, ab0>>

----------------------------------------------------------------------------
(* Bounds of the model.                                                    *)

MaxLen == 2        \* longest data / sample sequence handed to one call
MaxCalls == 2      \* calls that allocate a posterior, per run
MaxData == 3       \* most data an ABTest arm accumulates
MaxSamples == 3    \* longest sample sequence summarised in SpecSummary

----------------------------------------------------------------------------
(* float64 arithmetic.  A finite value is (n/d) * 2^e with n and d odd and *)
(* coprime, d > 0 (zero is 0/1 * 2^0).  A value with d = 1 and a short n   *)
(* is a float64 exactly; a value with d > 1 stands for the float64 nearest *)
(* to it.  The other values are NaN, +Inf and -Inf (n carries the sign)    *)
(* and "sqrt": the positive irrational root of (n/d) * 2^e, which only     *)
(* math.Sqrt produces.                                                     *)
(*                                                                         *)
(* A sum is exact when its operands are close in magnitude, and is the     *)
(* larger operand when the smaller one is below a quarter of its last      *)
(* binary place (round to nearest).  The inputs of the model leave no sum  *)
(* between the two cases; Unmodelled stops the evaluation if one occurs.   *)

Precision == 53    \* significand bits of float64

RECURSIVE GCD(_, _)
GCD(a, b) == IF b = 0 THEN a ELSE GCD(b, a % b)

Abs(n) == IF n < 0 THEN -n ELSE n

Sign(n) == IF n < 0 THEN -1 ELSE IF n > 0 THEN 1 ELSE 0

RECURSIVE Pow2(_)
Pow2(k) == IF k = 0 THEN 1 ELSE 2 * Pow2(k - 1)

\* The number of factors 2 of n # 0.
RECURSIVE TwoAdic(_)
TwoAdic(n) == IF n % 2 = 0 THEN 1 + TwoAdic(n \div 2) ELSE 0

\* The number of binary digits of n > 0.
RECURSIVE BitLen(_)
BitLen(n) == IF n = 0 THEN 0 ELSE 1 + BitLen(n \div 2)

Unmodelled == CHOOSE x \in {} : TRUE

\* (n/d) * 2^e in normal form, d # 0.
Mk(n, d, e) ==
    IF n = 0 THEN [k |-> "fin", n |-> 0, d |-> 1, e |-> 0]
    ELSE LET s == IF d < 0 THEN -1 ELSE 1
             g == GCD(Abs(n), Abs(d))
             n1 == (s * n) \div g
             d1 == (s * d) \div g
             tn == TwoAdic(Abs(n1))
             td == TwoAdic(d1)
         IN  [k |-> "fin", n |-> n1 \div Pow2(tn), d |-> d1 \div Pow2(td),
              e |-> e + tn - td]

F(n, d) == Mk(n, d, 0)

NaN == [k |-> "nan", n |-> 0, d |-> 1, e |-> 0]
Inf(s) == [k |-> "inf", n |-> s, d |-> 1, e |-> 0]
Zero == F(0, 1)
One == F(1, 1)
FromInt(i) == F(i, 1)

IsNaN(a) == a.k = "nan"
IsFin(a) == a.k = "fin"

\* For a finite a # 0: 2^Lo(a) < |a| < 2^Hi(a).
Lo(a) == a.e + BitLen(Abs(a.n)) - BitLen(a.d) - 1
Hi(a) == a.e + BitLen(Abs(a.n)) - BitLen(a.d) + 1

\* |b| is below a quarter of the last binary place of a: a + b and a - b round to a.
Absorbs(a, b) == Hi(b) <= Lo(a) - (Precision + 1)

FNeg(a) == IF a.k = "nan" THEN NaN ELSE [a EXCEPT !.n = -a.n]

FAdd(a, b) ==
    IF a.k = "nan" \/ b.k = "nan" THEN NaN
    ELSE IF a.k = "inf" /\ b.k = "inf" THEN (IF a.n = b.n THEN a ELSE NaN)
    ELSE IF a.k = "inf" THEN a
    ELSE IF b.k = "inf" THEN b
    ELSE IF a.n = 0 THEN b
    ELSE IF b.n = 0 THEN a
    ELSE IF Absorbs(a, b) THEN a
    ELSE IF Absorbs(b, a) THEN b
    ELSE LET e == IF a.e < b.e THEN a.e ELSE b.e
         IN  IF a.e - e > 20 \/ b.e - e > 20 THEN Unmodelled
             ELSE Mk(a.n * Pow2(a.e - e) * b.d + b.n * Pow2(b.e - e) * a.d,
                     a.d * b.d, e)

FSub(a, b) == FAdd(a, FNeg(b))

FMul(a, b) ==
    IF a.k = "nan" \/ b.k = "nan" THEN NaN
    ELSE IF a.k = "inf" \/ b.k = "inf"
         THEN (IF a.n = 0 \/ b.n = 0 THEN NaN ELSE Inf(Sign(a.n) * Sign(b.n)))
    ELSE Mk(a.n * b.n, a.d * b.d, a.e + b.e)

FDiv(a, b) ==
    IF a.k = "nan" \/ b.k = "nan" THEN NaN
    ELSE IF a.k = "inf"
         THEN (IF b.k = "inf" THEN NaN
               ELSE Inf(a.n * (IF b.n < 0 THEN -1 ELSE 1)))
    ELSE IF b.k = "inf" THEN Zero
    ELSE IF b.n = 0 THEN (IF a.n = 0 THEN NaN ELSE Inf(Sign(a.n)))
    ELSE Mk(a.n * b.d, a.d * b.n, a.e - b.e)

\* a < b of two finite values.
FinLt(a, b) ==
    IF Sign(a.n) # Sign(b.n) THEN Sign(a.n) < Sign(b.n)
    ELSE IF a.n = 0 THEN FALSE
    ELSE IF Hi(a) <= Lo(b) THEN a.n > 0
    ELSE IF Hi(b) <= Lo(a) THEN a.n < 0
    ELSE LET e == IF a.e < b.e THEN a.e ELSE b.e
         IN  a.n * Pow2(a.e - e) * b.d < b.n * Pow2(b.e - e) * a.d

\* a < b and a > b of float64: false whenever an operand is NaN.
FLt(a, b) ==
    IF a.k = "nan" \/ b.k = "nan" THEN FALSE
    ELSE IF a.k = "inf" THEN a.n < 0 /\ ~(b.k = "inf" /\ b.n < 0)
    ELSE IF b.k = "inf" THEN b.n > 0
    ELSE FinLt(a, b)

FGt(a, b) == FLt(b, a)
FLe(a, b) == ~IsNaN(a) /\ ~IsNaN(b) /\ ~FLt(b, a)
FGe(a, b) == FLe(b, a)

IsSquare(n) == \E r \in 0..n : r * r = n
Root(n) == CHOOSE r \in 0..n : r * r = n

\* math.Sqrt
FSqrt(a) ==
    IF a.k = "nan" THEN NaN
    ELSE IF a.k = "inf" THEN (IF a.n > 0 THEN a ELSE NaN)
    ELSE IF a.n < 0 THEN NaN
    ELSE IF a.e % 2 = 0 /\ IsSquare(a.n) /\ IsSquare(a.d)
         THEN Mk(Root(a.n), Root(a.d), a.e \div 2)
    ELSE [a EXCEPT !.k = "sqrt"]

\* The square of a value, defined on the results of FSqrt as well.
FSq(a) == IF a.k = "sqrt" THEN [a EXCEPT !.k = "fin"] ELSE FMul(a, a)

----------------------------------------------------------------------------
(* Objects.  A pointer is modelled by the address of the object it points  *)
(* to; an object is its address and its fields.                            *)

Nil == [kind |-> "nil"]
IsNil(v) == v.kind = "nil"

Alloc(a, v) == [kind |-> "obj", addr |-> a, val |-> v]

----------------------------------------------------------------------------
(* Beta (part_003).                                                        *)

NewBeta(alpha, beta) == [kind |-> "Beta", Alpha |-> alpha, Beta |-> beta]

BetaPosterior(b) == [b EXCEPT !.kind = "BetaPosterior"]

\* The loop of Beta.Update: successes++ for every x > 0.
RECURSIVE CountSuccesses(_, _, _)
CountSuccesses(data, i, successes) ==
    IF i > Len(data) THEN successes
    ELSE CountSuccesses(data, i + 1,
                        IF FGt(data[i], Zero) THEN FAdd(successes, One)
                        ELSE successes)

BetaUpdateGE(b, data) ==
    LET RECURSIVE cnt(_, _)
        cnt(i, s) == IF i > Len(data) THEN s
                     ELSE cnt(i + 1, IF FGe(data[i], Zero) THEN FAdd(s, One) ELSE s)
        successes == cnt(1, Zero)
        trials == FromInt(Len(data))
    IN  BetaPosterior(NewBeta(FAdd(b.Alpha, successes),
                              FSub(FAdd(b.Beta, trials), successes)))

BetaUpdate(b, data) ==
    LET successes == CountSuccesses(data, 1, Zero)
        trials == FromInt(Len(data))
    IN  BetaPosterior(NewBeta(FAdd(b.Alpha, successes),
                              FSub(FAdd(b.Beta, trials), successes)))

BetaUpdateSingle(b, observation) ==
    IF FGt(observation, Zero)
    THEN BetaPosterior(NewBeta(FAdd(b.Alpha, One), b.Beta))
    ELSE BetaPosterior(NewBeta(b.Alpha, FAdd(b.Beta, One)))

----------------------------------------------------------------------------
(* Normal and NormalConjugate (part_004).                                  *)

NewNormal(mu, sigma) == [kind |-> "Normal", Mu |-> mu, Sigma |-> sigma]

NewNormalConjugate(mu, sigma, knownVariance) ==
    [kind |-> "NormalConjugate", Mu |-> NewNormal(mu, sigma).Mu,
     Sigma |-> NewNormal(mu, sigma).Sigma, KnownVariance |-> knownVariance]

NormalPosterior(n) == [n EXCEPT !.kind = "NormalPosterior"]

\* The loop of NormalConjugate.Update: sumX += x.
RECURSIVE SumX(_, _, _)
SumX(data, i, sumX) ==
    IF i > Len(data) THEN sumX ELSE SumX(data, i + 1, FAdd(sumX, data[i]))

NormalConjugateUpdateNoN(nc, data) ==
    LET n == FromInt(Len(data))
        xBar == FDiv(SumX(data, 1, Zero), n)
        tau0 == FDiv(One, FMul(nc.Sigma, nc.Sigma))
        tau == FDiv(One, nc.KnownVariance)
        tauNew == FAdd(tau0, tau)
        muNew == FDiv(FAdd(FMul(tau0, nc.Mu), FMul(tau, xBar)), tauNew)
        sigmaNew == FSqrt(FDiv(One, tauNew))
    IN  NormalPosterior(NewNormal(muNew, sigmaNew))

NormalConjugateUpdate(nc, data) ==
    LET n == FromInt(Len(data))
        xBar == FDiv(SumX(data, 1, Zero), n)
        tau0 == FDiv(One, FMul(nc.Sigma, nc.Sigma))
        tau == FDiv(One, nc.KnownVariance)
        tauNew == FAdd(tau0, FMul(n, tau))
        muNew == FDiv(FAdd(FMul(tau0, nc.Mu), FMul(FMul(n, tau), xBar)), tauNew)
        sigmaNew == FSqrt(FDiv(One, tauNew))
    IN  NormalPosterior(NewNormal(muNew, sigmaNew))

NormalConjugateUpdateSingle(nc, observation) ==
    NormalConjugateUpdate(nc, <<observation>>)

----------------------------------------------------------------------------
(* Prior: the interface both priors satisfy (part_002, lines 64-73).  A    *)
(* call through the interface runs the method of the object's own type.    *)

PriorUpdate(p, data) ==
    IF p.kind = "Beta" THEN BetaUpdate(p, data)
    ELSE NormalConjugateUpdate(p, data)

PriorUpdateSingle(p, observation) ==
    IF p.kind = "Beta" THEN BetaUpdateSingle(p, observation)
    ELSE NormalConjugateUpdateSingle(p, observation)

\* What one call does to the heap: recv is the receiver after the call, ret the
\* object the returned pointer points to; a is the next free address.
UpdateCallInPlace(obj, data, a) ==
    LET mutated == [obj EXCEPT !.val = [PriorUpdate(obj.val, data)
                                          EXCEPT !.kind = obj.val.kind]]
    IN  [recv |-> mutated, ret |-> mutated]

UpdateCall(obj, data, a) ==
    [recv |-> obj, ret |-> Alloc(a, PriorUpdate(obj.val, data))]

UpdateSingleCall(obj, observation, a) ==
    [recv |-> obj, ret |-> Alloc(a, PriorUpdateSingle(obj.val, observation))]

----------------------------------------------------------------------------
(* Summary engine (part_002) and the gonum functions it calls.             *)

\* A panic raised while an expression is evaluated.
Panic == [k |-> "panic", n |-> 0, d |-> 1, e |-> 0]
IsPanic(a) == a.k = "panic"

\* floats.Sum over x[lo..hi].  The loop adds the elements in index order; the
\* sum of exact rationals does not depend on that order, and the halving keeps
\* the evaluation shallow on long inputs.
RECURSIVE FloatsSum(_, _, _)
FloatsSum(x, lo, hi) ==
    IF lo > hi THEN Zero
    ELSE IF lo = hi THEN FAdd(Zero, x[lo])
    ELSE LET mid == (lo + hi) \div 2
         IN  FAdd(FloatsSum(x, lo, mid), FloatsSum(x, mid + 1, hi))

\* stat.Mean(x, nil): floats.Sum(x) / float64(len(x))
Mean(x) == FDiv(FloatsSum(x, 1, Len(x)), FromInt(Len(x)))

\* stat.Variance(x, nil): the corrected two-pass algorithm, unbiased (the sum of
\* squares over len(x) - 1).
Variance(x) ==
    LET deviations(mean) == [i \in 1..Len(x) |-> FSub(x[i], mean)]
        squares(d) == [i \in 1..Len(x) |-> FMul(d[i], d[i])]
        unnormalisedVariance(ss, compensation) ==
            FSub(ss, FDiv(FMul(compensation, compensation), FromInt(Len(x))))
        sums(d) == unnormalisedVariance(FloatsSum(squares(d), 1, Len(x)),
                                        FloatsSum(d, 1, Len(x)))
    IN  FDiv(sums(deviations(Mean(x))), FSub(FromInt(Len(x)), One))

\* stat.StdDev(x, nil)
StdDev(x) == FSqrt(Variance(x))

\* slices.Sort on a slice of float64 (no NaN among the samples): the ascending
\* rearrangement, element i going to the place its rank gives it.
Sort(s) ==
    LET n == Len(s)
        rank == [i \in 1..n |->
                    Cardinality({j \in 1..n : FLt(s[j], s[i])})
                    + Cardinality({j \in 1..i : s[j] = s[i]})]
    IN  [k \in 1..n |-> s[CHOOSE i \in 1..n : rank[i] = k]]

\* The loop of gonum's empiricalQuantile: the first x[i] at which the count of
\* samples passed reaches fidx = p * len(x).
RECURSIVE empiricalQuantile(_, _, _, _)
empiricalQuantile(p, x, i, cumsum) ==
    IF i > Len(x) THEN Panic
    ELSE IF FGe(FromInt(cumsum + 1), FMul(p, FromInt(Len(x)))) THEN x[i]
    ELSE empiricalQuantile(p, x, i + 1, cumsum + 1)

\* A quantile by linear interpolation between the order statistics
\* (h = (n-1)p + 1, between x[floor h] and x[floor h + 1]).
LinearQuantile(p, x) ==
    IF Len(x) = 0 THEN Panic
    ELSE LET h == FAdd(FMul(p, FromInt(Len(x) - 1)), One)
             lo == IF h.e >= 0 THEN (h.n * Pow2(h.e)) \div h.d
                   ELSE h.n \div (h.d * Pow2(-h.e))
             frac == FSub(h, FromInt(lo))
         IN  IF lo >= Len(x) THEN x[Len(x)]
             ELSE FAdd(x[lo], FMul(frac, FSub(x[lo + 1], x[lo])))

\* stat.Quantile(p, stat.Empirical, x, nil), x sorted
Quantile(p, x) ==
    IF Len(x) = 0 THEN Panic
    ELSE IF \E i \in 1..Len(x) : IsNaN(x[i]) THEN NaN
    ELSE empiricalQuantile(p, x, 1, 0)

estimateMode(smp) == Mean(smp)

\* What ComputeSummary does: outcome is "returned" or "panic", samples is the
\* caller's slice after the call, ret the Summary returned.
ComputeSummaryInPlace(samples) ==
    LET summary(sort) ==
            [Mean |-> Mean(sort),
             Median |-> Quantile(F(1, 2), sort),
             Mode |-> estimateMode(sort),
             Variance |-> Variance(sort),
             StdDev |-> StdDev(sort),
             CI95 |-> <<Quantile(F(25, 1000), sort), Quantile(F(975, 1000), sort)>>,
             CI99 |-> <<Quantile(F(5, 1000), sort), Quantile(F(995, 1000), sort)>>,
             Samples |-> sort]
        result(s) ==
            IF IsPanic(s.Median)
            THEN [outcome |-> "panic", samples |-> s.Samples, ret |-> Nil]
            ELSE [outcome |-> "returned", samples |-> s.Samples, ret |-> s]
    IN  result(summary(Sort(samples)))

ComputeSummary(samples) ==
    LET summary(sort) ==
            [Mean |-> Mean(samples),
             Median |-> Quantile(F(1, 2), sort),
             Mode |-> estimateMode(samples),
             Variance |-> Variance(samples),
             StdDev |-> StdDev(samples),
             CI95 |-> <<Quantile(F(25, 1000), sort), Quantile(F(975, 1000), sort)>>,
             CI99 |-> <<Quantile(F(5, 1000), sort), Quantile(F(995, 1000), sort)>>,
             Samples |-> samples]
        result(s) ==
            IF IsPanic(s.Median) \/ IsPanic(s.CI95[1]) \/ IsPanic(s.CI95[2])
               \/ IsPanic(s.CI99[1]) \/ IsPanic(s.CI99[2])
            THEN [outcome |-> "panic", samples |-> samples, ret |-> Nil]
            ELSE [outcome |-> "returned", samples |-> samples, ret |-> s]
    IN  result(summary(Sort(samples)))

----------------------------------------------------------------------------
(* Inputs.                                                                 *)

SeqsUpTo(S, n) == UNION {[1..m -> S] : m \in 0..n}

\* 2^-60: a positive float64 far below the last binary place of 1.
Tiny == Mk(1, 1, -60)

ShapeValues == {Zero, Tiny, F(1, 2), One, F(2, 1)}
MuValues == {F(-1, 1), F(2, 1)}
SigmaValues == {Zero, F(1, 2), One}
VarianceValues == {F(-1, 1), One, F(4, 1)}
DataValues == {F(-1, 1), Zero, One}
DataSeqs == SeqsUpTo(DataValues, MaxLen)

SampleValues == {F(-1, 1), Zero, F(1, 2), One, F(3, 1)}
Seq100 == [i \in 1..100 |-> FromInt(i)]
SampleSeqs == SeqsUpTo(SampleValues, MaxSamples) \cup {Seq100}

----------------------------------------------------------------------------
(* The client of package distributions: it constructs one prior, updates   *)
(* it and summarises sample sequences.  last records the call just made:   *)
(* its receiver and argument as they were before the call, the caller's    *)
(* slice as it is after the call, and what came back.                      *)

NoCall ==
    [op |-> "none", recv |-> Nil, arg |-> <<>>, after |-> <<>>,
     outcome |-> "none", ret |-> Nil]

CallNewBeta(alpha, beta) ==
    /\ IsNil(prior)
    /\ prior' = Alloc(nextAddr, NewBeta(alpha, beta))
    /\ nextAddr' = nextAddr + 1
    /\ last' = [op |-> "NewBeta", recv |-> Nil, arg |-> <<alpha, beta>>,
                after |-> <<alpha, beta>>, outcome |-> "returned", ret |-> prior']
    /\ UNCHANGED <<sampleBuf, abVars>>

CallNewNormalConjugate(mu, sigma, knownVariance) ==
    /\ IsNil(prior)
    /\ prior' = Alloc(nextAddr, NewNormalConjugate(mu, sigma, knownVariance))
    /\ nextAddr' = nextAddr + 1
    /\ last' = [op |-> "NewNormalConjugate", recv |-> Nil,
                arg |-> <<mu, sigma, knownVariance>>,
                after |-> <<mu, sigma, knownVariance>>,
                outcome |-> "returned", ret |-> prior']
    /\ UNCHANGED <<sampleBuf, abVars>>

CallUpdate(data) ==
    /\ ~IsNil(prior)
    /\ nextAddr <= MaxCalls + 1
    /\ LET r == UpdateCall(prior, data, nextAddr)
       IN  /\ prior' = r.recv
           /\ last' = [op |-> "Update", recv |-> prior, arg |-> data,
                       after |-> data, outcome |-> "returned", ret |-> r.ret]
    /\ nextAddr' = nextAddr + 1
    /\ UNCHANGED <<sampleBuf, abVars>>

CallUpdateSingle(observation) ==
    /\ ~IsNil(prior)
    /\ nextAddr <= MaxCalls + 1
    /\ LET r == UpdateSingleCall(prior, observation, nextAddr)
       IN  /\ prior' = r.recv
           /\ last' = [op |-> "UpdateSingle", recv |-> prior,
                       arg |-> <<observation>>, after |-> <<observation>>,
                       outcome |-> "returned", ret |-> r.ret]
    /\ nextAddr' = nextAddr + 1
    /\ UNCHANGED <<sampleBuf, abVars>>

CallComputeSummary ==
    /\ LET returns(r) ==
               /\ sampleBuf' = r.samples
               /\ last' = [op |-> "ComputeSummary", recv |-> Nil, arg |-> sampleBuf,
                           after |-> r.samples, outcome |-> r.outcome, ret |-> r.ret]
       IN  returns(ComputeSummary(sampleBuf))
    /\ UNCHANGED <<prior, nextAddr, abVars>>

----------------------------------------------------------------------------
(* ABTest (package models, README.md lines 180-388).  The ABTest reads     *)
(* only the fields of its priors and posteriors, so it holds their values. *)

NewABTest ==
    [ControlPrior |-> NewBeta(One, One), TreatmentPrior |-> NewBeta(One, One),
     ControlData |-> <<>>, TreatmentData |-> <<>>,
     ControlPost |-> Nil, TreatmentPost |-> Nil]

NewABTestWithPriors(controlPrior, treatmentPrior) ==
    [ControlPrior |-> controlPrior, TreatmentPrior |-> treatmentPrior,
     ControlData |-> <<>>, TreatmentData |-> <<>>,
     ControlPost |-> Nil, TreatmentPost |-> Nil]

\* A posterior compounded from the previous posterior instead of the prior.
updatePosteriorsCompounding(t) ==
    LET asPrior(post, pr) ==
            IF IsNil(post) THEN pr
            ELSE IF pr.kind = "Beta" THEN NewBeta(post.Alpha, post.Beta)
            ELSE NewNormalConjugate(post.Mu, post.Sigma, pr.KnownVariance)
        t1 == IF Len(t.ControlData) > 0
              THEN [t EXCEPT !.ControlPost =
                       PriorUpdate(asPrior(t.ControlPost, t.ControlPrior), t.ControlData)]
              ELSE t
    IN  IF Len(t1.TreatmentData) > 0
        THEN [t1 EXCEPT !.TreatmentPost =
                 PriorUpdate(asPrior(t.TreatmentPost, t1.TreatmentPrior), t1.TreatmentData)]
        ELSE t1

\* A posterior derived for an arm that has no data yet.
updatePosteriorsAlways(t) ==
    [t EXCEPT !.ControlPost = PriorUpdate(t.ControlPrior, t.ControlData),
              !.TreatmentPost = PriorUpdate(t.TreatmentPrior, t.TreatmentData)]

updatePosteriors(t) ==
    LET t1 == IF Len(t.ControlData) > 0
              THEN [t EXCEPT !.ControlPost = PriorUpdate(t.ControlPrior, t.ControlData)]
              ELSE t
    IN  IF Len(t1.TreatmentData) > 0
        THEN [t1 EXCEPT !.TreatmentPost =
                 PriorUpdate(t1.TreatmentPrior, t1.TreatmentData)]
        ELSE t1

ABPriors == {NewBeta(F(1, 2), F(2, 1)), NewNormalConjugate(F(2, 1), One, F(4, 1))}
ABDataValues == {Zero, F(2, 1)}
ABBatches == SeqsUpTo(ABDataValues, MaxLen)

NoAdded == [control |-> <<>>, treatment |-> <<>>]

\* Control data that leaks into the treatment arm.
AddControlDataBothArms(data) ==
    /\ Len(ab.ControlData) + Len(data) <= MaxData
    /\ ab' = updatePosteriors([ab EXCEPT !.ControlData = ab.ControlData \o data,
                                         !.TreatmentData = ab.TreatmentData \o data])
    /\ added' = [added EXCEPT !.control = added.control \o data]
    /\ UNCHANGED <<ab0, coreVars>>

AddControlData(data) ==
    /\ Len(ab.ControlData) + Len(data) <= MaxData
    /\ ab' = updatePosteriors([ab EXCEPT !.ControlData = ab.ControlData \o data])
    /\ added' = [added EXCEPT !.control = added.control \o data]
    /\ UNCHANGED <<ab0, coreVars>>

AddTreatmentData(data) ==
    /\ Len(ab.TreatmentData) + Len(data) <= MaxData
    /\ ab' = updatePosteriors([ab EXCEPT !.TreatmentData = ab.TreatmentData \o data])
    /\ added' = [added EXCEPT !.treatment = added.treatment \o data]
    /\ UNCHANGED <<ab0, coreVars>>

Init ==
    /\ prior = Nil
    /\ last = NoCall
    /\ nextAddr = 1
    /\ sampleBuf = <<>>
    /\ ab = NewABTest
    /\ added = NoAdded
    /\ ab0 = ab

Next ==
    \/ \E alpha, beta \in ShapeValues : CallNewBeta(alpha, beta)
    \/ \E mu \in MuValues, sigma \in SigmaValues, kv \in VarianceValues :
           CallNewNormalConjugate(mu, sigma, kv)
    \/ \E data \in DataSeqs : CallUpdate(data)
    \/ \E x \in DataValues : CallUpdateSingle(x)

Spec == Init /\ [][Next]_vars

\* The summary engine on its own: the client holds any sample slice.
InitSummary ==
    /\ prior = Nil
    /\ last = NoCall
    /\ nextAddr = 1
    /\ sampleBuf \in SampleSeqs
    /\ ab = NewABTest
    /\ added = NoAdded
    /\ ab0 = ab

NextSummary == CallComputeSummary

SpecSummary == InitSummary /\ [][NextSummary]_vars

\* The whole of package distributions.
InitCore ==
    /\ prior = Nil
    /\ last = NoCall
    /\ nextAddr = 1
    /\ sampleBuf \in DataSeqs
    /\ ab = NewABTest
    /\ added = NoAdded
    /\ ab0 = ab

NextCore ==
    \/ Next
    \/ CallComputeSummary

SpecCore == InitCore /\ [][NextCore]_vars

\* The ABTest orchestrator: any of the two constructors, then data additions.
InitAB ==
    /\ prior = Nil
    /\ last = NoCall
    /\ nextAddr = 1
    /\ sampleBuf = <<>>
    /\ ab \in {NewABTest}
              \cup {NewABTestWithPriors(c, t) : c \in ABPriors, t \in ABPriors}
    /\ added = NoAdded
    /\ ab0 = ab

NextAB ==
    \/ \E data \in ABBatches : AddControlData(data)
    \/ \E data \in ABBatches : AddTreatmentData(data)

SpecAB == InitAB /\ [][NextAB]_vars

----------------------------------------------------------------------------
(* The statistics of ABTest (README.md lines 237-388).  Each statistic     *)
(* draws nSamples values from either posterior with SampleN; the draws are *)
(* random, so a call can see any sequence of values the posterior can      *)
(* produce.                                                                *)

\* The number of paired draws of one statistic (10000 in the source).
nSamples == 2

\* What Sample() can return: a rate inside (0, 1) for a Beta posterior, any
\* real for a Normal posterior.
SampleValuesOf(post) ==
    IF post.kind = "BetaPosterior" THEN {F(1, 4), F(3, 4)}
    ELSE {F(-1, 1), Zero, One}

\* SampleN(n): the sequences of n draws.
SampleN(post, n) == [1..n -> SampleValuesOf(post)]

\* ab.ControlPost == nil || ab.TreatmentPost == nil
NoPosterior(t) == IsNil(t.ControlPost) \/ IsNil(t.TreatmentPost)

\* The pairs <<controlSamples, treatmentSamples>> one statistic can draw; none
\* is drawn when a posterior is missing.
PairedDraws(t) ==
    IF NoPosterior(t) THEN {<<<<>>, <<>>>>}
    ELSE SampleN(t.ControlPost, nSamples) \X SampleN(t.TreatmentPost, nSamples)

\* The loop of ProbabilityOfImprovement: wins++ when the treatment draw is greater.
RECURSIVE CountWins(_, _, _, _)
CountWins(controlSamples, treatmentSamples, i, wins) ==
    IF i > nSamples THEN wins
    ELSE CountWins(controlSamples, treatmentSamples, i + 1,
                   IF FGt(treatmentSamples[i], controlSamples[i])
                   THEN wins + 1 ELSE wins)

ProbabilityOfImprovementGE(t, controlSamples, treatmentSamples) ==
    IF NoPosterior(t) THEN F(1, 2)
    ELSE FDiv(FromInt(Cardinality({i \in 1..nSamples :
                                     FGe(treatmentSamples[i], controlSamples[i])})),
              FromInt(nSamples))

ProbabilityOfImprovement(t, controlSamples, treatmentSamples) ==
    IF NoPosterior(t) THEN F(1, 2)
    ELSE FDiv(FromInt(CountWins(controlSamples, treatmentSamples, 1, 0)),
              FromInt(nSamples))

\* The loop of ExpectedLoss; loss is <<controlLoss, treatmentLoss>>.
RECURSIVE SumLosses(_, _, _, _)
SumLosses(controlSamples, treatmentSamples, i, loss) ==
    IF i > nSamples THEN loss
    ELSE LET add(diff) == IF FGt(diff, Zero)
                          THEN <<FAdd(loss[1], diff), loss[2]>>
                          ELSE <<loss[1], FSub(loss[2], diff)>>
         IN  SumLosses(controlSamples, treatmentSamples, i + 1,
                       add(FSub(treatmentSamples[i], controlSamples[i])))

ExpectedLossSwapped(t, controlSamples, treatmentSamples) ==
    IF NoPosterior(t) THEN <<Zero, Zero>>
    ELSE LET mean(loss) == <<FDiv(loss[2], FromInt(nSamples)),
                             FDiv(loss[1], FromInt(nSamples))>>
         IN  mean(SumLosses(controlSamples, treatmentSamples, 1, <<Zero, Zero>>))

ExpectedLoss(t, controlSamples, treatmentSamples) ==
    IF NoPosterior(t) THEN <<Zero, Zero>>
    ELSE LET mean(loss) == <<FDiv(loss[1], FromInt(nSamples)),
                             FDiv(loss[2], FromInt(nSamples))>>
         IN  mean(SumLosses(controlSamples, treatmentSamples, 1, <<Zero, Zero>>))

\* ---- float64 arithmetic of the interval indices ----
\* int(alpha * float64(len)) depends on the last binary places of alpha, so
\* alpha = (1 - confidence) / 2 is computed here on the float64 itself: a
\* sign s, a significand m and an exponent x, the value being s * m * 2^x
\* with m below 2^Precision.  m is a natural number in limbs of LimbBits
\* binary digits, the lowest first, without leading zero limbs.

LimbBits == 12
LimbBase == Pow2(LimbBits)

\* binary places kept beyond the quotient when a ratio n/d is converted
GuardBits == 96

RECURSIVE BigNorm(_)
BigNorm(a) ==
    IF a = <<>> THEN <<>>
    ELSE IF a[Len(a)] = 0 THEN BigNorm(SubSeq(a, 1, Len(a) - 1))
    ELSE a

RECURSIVE BigFromInt(_)
BigFromInt(n) ==
    IF n = 0 THEN <<>> ELSE <<n % LimbBase>> \o BigFromInt(n \div LimbBase)

RECURSIVE BigToInt(_)
BigToInt(a) ==
    IF a = <<>> THEN 0 ELSE a[1] + LimbBase * BigToInt(Tail(a))

BigBitLen(a) ==
    IF a = <<>> THEN 0 ELSE LimbBits * (Len(a) - 1) + BitLen(a[Len(a)])

RECURSIVE BigAddC(_, _, _)
BigAddC(a, b, carry) ==
    IF a = <<>> /\ b = <<>> THEN (IF carry = 0 THEN <<>> ELSE <<carry>>)
    ELSE LET x == IF a = <<>> THEN 0 ELSE a[1]
             y == IF b = <<>> THEN 0 ELSE b[1]
             ta == IF a = <<>> THEN <<>> ELSE Tail(a)
             tb == IF b = <<>> THEN <<>> ELSE Tail(b)
         IN  <<(x + y + carry) % LimbBase>>
                 \o BigAddC(ta, tb, (x + y + carry) \div LimbBase)

BigAdd(a, b) == BigAddC(a, b, 0)

\* a - b - borrow, for a >= b + borrow
RECURSIVE BigSubB(_, _, _)
BigSubB(a, b, borrow) ==
    IF a = <<>> THEN <<>>
    ELSE LET y == (IF b = <<>> THEN 0 ELSE b[1]) + borrow
             tb == IF b = <<>> THEN <<>> ELSE Tail(b)
         IN  IF a[1] >= y THEN <<a[1] - y>> \o BigSubB(Tail(a), tb, 0)
             ELSE <<a[1] + LimbBase - y>> \o BigSubB(Tail(a), tb, 1)

BigSub(a, b) == BigNorm(BigSubB(a, b, 0))

\* a < b of two naturals without leading zero limbs
RECURSIVE BigLess(_, _)
BigLess(a, b) ==
    IF Len(a) # Len(b) THEN Len(a) < Len(b)
    ELSE IF a = <<>> THEN FALSE
    ELSE IF a[Len(a)] # b[Len(b)] THEN a[Len(a)] < b[Len(b)]
    ELSE BigLess(SubSeq(a, 1, Len(a) - 1), SubSeq(b, 1, Len(b) - 1))

\* a * k + carry, for 0 < k < 2^18
RECURSIVE BigMulSmallC(_, _, _)
BigMulSmallC(a, k, carry) ==
    IF a = <<>> THEN BigFromInt(carry)
    ELSE <<(a[1] * k + carry) % LimbBase>>
             \o BigMulSmallC(Tail(a), k, (a[1] * k + carry) \div LimbBase)

BigMulSmall(a, k) == BigNorm(BigMulSmallC(a, k, 0))

\* quotient q and remainder r of a by d, for 0 < d < 2^18
RECURSIVE BigDivSmall(_, _)
BigDivSmall(a, d) ==
    IF a = <<>> THEN [q |-> <<>>, r |-> 0]
    ELSE LET step(hi) == [q |-> <<(hi.r * LimbBase + a[1]) \div d>> \o hi.q,
                          r |-> (hi.r * LimbBase + a[1]) % d]
         IN  step(BigDivSmall(Tail(a), d))

\* a * 2^k
BigShiftLeft(a, k) ==
    IF a = <<>> THEN <<>>
    ELSE [i \in 1..(k \div LimbBits) |-> 0]
             \o BigMulSmall(a, Pow2(k % LimbBits))

\* a \div 2^k, and whether a binary digit 1 was dropped
BigShiftRight(a, k) ==
    LET limbs == k \div LimbBits
        low == SubSeq(a, 1, IF limbs < Len(a) THEN limbs ELSE Len(a))
        high == SubSeq(a, limbs + 1, Len(a))
        part(qr) == [q |-> BigNorm(qr.q),
                     sticky |-> qr.r # 0 \/ \E i \in 1..Len(low) : low[i] # 0]
    IN  part(BigDivSmall(high, Pow2(k % LimbBits)))

\* m * 2^x (and a little more when sticky) rounded to Precision binary
\* digits, to nearest, ties to the even significand.
Float64Round(s, m, x, sticky) ==
    LET excess == BigBitLen(m) - Precision
        round(half) ==
            LET q == BigNorm(BigDivSmall(half.q, 2).q)
                roundBit == half.q # <<>> /\ half.q[1] % 2 = 1
                odd == q # <<>> /\ q[1] % 2 = 1
            IN  [s |-> s,
                 m |-> IF roundBit /\ (half.sticky \/ sticky \/ odd)
                       THEN BigAdd(q, <<1>>) ELSE q,
                 x |-> x + excess]
    IN  IF m = <<>> THEN [s |-> 0, m |-> <<>>, x |-> 0]
        ELSE IF excess <= 0 THEN [s |-> s, m |-> m, x |-> x]
        ELSE round(BigShiftRight(m, excess - 1))

\* The float64 a finite value of the model stands for.
ToFloat64(a) ==
    LET quotient(qr) ==
            Float64Round(Sign(a.n), BigNorm(qr.q), a.e - GuardBits, qr.r # 0)
    IN  quotient(BigDivSmall(BigShiftLeft(BigFromInt(Abs(a.n)), GuardBits), a.d))

Float64One == [s |-> 1, m |-> <<1>>, x |-> 0]

Float64Neg(a) == [a EXCEPT !.s = -a.s]

\* a + b, rounded
Float64Add(a, b) ==
    IF a.s = 0 THEN b
    ELSE IF b.s = 0 THEN a
    ELSE LET x == IF a.x < b.x THEN a.x ELSE b.x
             sum(ma, mb) ==
                 IF a.s = b.s THEN Float64Round(a.s, BigAdd(ma, mb), x, FALSE)
                 ELSE IF BigLess(ma, mb)
                 THEN Float64Round(b.s, BigSub(mb, ma), x, FALSE)
                 ELSE Float64Round(a.s, BigSub(ma, mb), x, FALSE)
         IN  sum(BigShiftLeft(a.m, a.x - x), BigShiftLeft(b.m, b.x - x))

\* a / 2
Float64Half(a) == IF a.s = 0 THEN a ELSE [a EXCEPT !.x = a.x - 1]

\* a * float64(k), rounded, for an int 0 <= k < 2^18
Float64MulInt(a, k) ==
    IF a.s = 0 \/ k = 0 THEN [s |-> 0, m |-> <<>>, x |-> 0]
    ELSE Float64Round(a.s, BigMulSmall(a.m, k), a.x, FALSE)

\* int(a): the integer part, towards zero.
Float64TruncInt(a) ==
    IF a.s = 0 THEN 0
    ELSE IF a.x >= 0 THEN a.s * BigToInt(BigShiftLeft(a.m, a.x))
    ELSE a.s * BigToInt(BigShiftRight(a.m, -a.x).q)

\* alpha := (1 - confidence) / 2
IntervalAlpha(confidence) ==
    Float64Half(Float64Add(Float64One, Float64Neg(ToFloat64(confidence))))

\* lowerIdx := int(alpha * float64(len(sortedDiff)))
LowerIdx(alpha, len) == Float64TruncInt(Float64MulInt(alpha, len))

\* upperIdx := int((1 - alpha) * float64(len(sortedDiff)))
UpperIdx(alpha, len) ==
    Float64TruncInt(Float64MulInt(Float64Add(Float64One, Float64Neg(alpha)), len))

\* differences[i] = treatmentSamples[i] - controlSamples[i]
Differences(controlSamples, treatmentSamples) ==
    [i \in 1..nSamples |-> FSub(treatmentSamples[i], controlSamples[i])]

\* CredibleIntervalDifference: outcome is "returned" or "panic", ret <<lower, upper>>.
CredibleIntervalDifference(t, confidence, controlSamples, treatmentSamples) ==
    IF NoPosterior(t) THEN [outcome |-> "returned", ret |-> <<Zero, Zero>>]
    ELSE LET fromSamples(sortedDiff, lowerIdx, upperIdx) ==
                 IF lowerIdx < 0 \/ lowerIdx >= Len(sortedDiff)
                        \/ upperIdx < 0 \/ upperIdx >= Len(sortedDiff)
                 THEN [outcome |-> "panic", ret |-> <<>>]
                 ELSE [outcome |-> "returned",
                       ret |-> <<sortedDiff[lowerIdx + 1], sortedDiff[upperIdx + 1]>>]
             interval(r, alpha) ==
                 IF r.outcome = "panic" THEN [outcome |-> "panic", ret |-> <<>>]
                 ELSE IF confidence = F(95, 100)
                 THEN [outcome |-> "returned", ret |-> r.ret.CI95]
                 ELSE IF confidence = F(99, 100)
                 THEN [outcome |-> "returned", ret |-> r.ret.CI99]
                 ELSE IF ~IsFin(confidence) THEN Unmodelled
                 ELSE fromSamples(Sort(r.samples),
                                  LowerIdx(alpha, Len(r.samples)),
                                  UpperIdx(alpha, Len(r.samples)))
         IN  interval(ComputeSummary(Differences(controlSamples, treatmentSamples)),
                      IF IsFin(confidence) THEN IntervalAlpha(confidence) ELSE NaN)

\* The loop of RelativeUplift: a pair is kept when its control draw is > 0.
RECURSIVE Uplifts(_, _, _, _)
Uplifts(controlSamples, treatmentSamples, i, uplifts) ==
    IF i > nSamples THEN uplifts
    ELSE Uplifts(controlSamples, treatmentSamples, i + 1,
                 IF FGt(controlSamples[i], Zero)
                 THEN Append(uplifts, FDiv(FSub(treatmentSamples[i], controlSamples[i]),
                                           controlSamples[i]))
                 ELSE uplifts)

\* RelativeUplift: outcome is "returned" or "panic", ret <<mean, lower, upper>>.
RelativeUplift(t, controlSamples, treatmentSamples) ==
    IF NoPosterior(t) THEN [outcome |-> "returned", ret |-> <<Zero, Zero, Zero>>]
    ELSE LET returns(r) ==
                 IF r.outcome = "panic" THEN [outcome |-> "panic", ret |-> <<>>]
                 ELSE [outcome |-> "returned",
                       ret |-> <<r.ret.Mean, r.ret.CI95[1], r.ret.CI95[2]>>]
         IN  returns(ComputeSummary(Uplifts(controlSamples, treatmentSamples, 1, <<>>)))

getRecommendationModerateFirst(prob, treatmentLoss) ==
    IF FGt(prob, F(80, 100))
    THEN "Moderate evidence favors treatment. Consider implementation or continue testing."
    ELSE IF FGt(prob, F(95, 100)) /\ FLt(treatmentLoss, F(1, 100))
    THEN "Strong evidence favors treatment. Recommend implementation."
    ELSE IF FLt(prob, F(20, 100))
    THEN "Evidence favors control. Treatment likely inferior."
    ELSE "Insufficient evidence to make a recommendation. Continue testing."

getRecommendation(prob, treatmentLoss) ==
    IF FGt(prob, F(95, 100)) /\ FLt(treatmentLoss, F(1, 100))
    THEN "Strong evidence favors treatment. Recommend implementation."
    ELSE IF FGt(prob, F(80, 100))
    THEN "Moderate evidence favors treatment. Consider implementation or continue testing."
    ELSE IF FLt(prob, F(20, 100))
    THEN "Evidence favors control. Treatment likely inferior."
    ELSE "Insufficient evidence to make a recommendation. Continue testing."

\* Mean() of a posterior (gonum distuv): alpha/(alpha+beta) for Beta, Mu for Normal.
DistMean(post) ==
    IF post.kind = "BetaPosterior" THEN FDiv(post.Alpha, FAdd(post.Alpha, post.Beta))
    ELSE post.Mu

RECURSIVE Pow10(_)
Pow10(k) == IF k = 0 THEN 1 ELSE 10 * Pow10(k - 1)

\* The verb %.<prec>f of fmt.Sprintf: the decimal with prec digits nearest to x
\* (a tie goes to the even digit), as its sign and its count of units 10^-prec.
FormatFloat(x, prec) ==
    IF x.k = "nan" THEN [kind |-> "NaN"]
    ELSE IF x.k = "inf" THEN [kind |-> IF x.n > 0 THEN "+Inf" ELSE "-Inf"]
    ELSE IF x.k # "fin" THEN Unmodelled
    ELSE LET num == Abs(x.n) * Pow10(prec) * (IF x.e > 0 THEN Pow2(x.e) ELSE 1)
             den == x.d * (IF x.e < 0 THEN Pow2(-x.e) ELSE 1)
             round(fl, rem) ==
                 IF 2 * rem > den THEN fl + 1
                 ELSE IF 2 * rem < den THEN fl
                 ELSE IF x.d # 1 THEN Unmodelled
                 ELSE IF fl % 2 = 0 THEN fl ELSE fl + 1
         IN  [kind |-> "decimal", negative |-> x.n < 0,
              units |-> round(num \div den, num % den), prec |-> prec]

\* Summary, given what its four statistics returned: the text it returns, as
\* the arguments of its format.
Summary(t, prob, loss, interval, uplift) ==
    IF NoPosterior(t)
    THEN [outcome |-> "returned",
          ret |-> [kind |-> "text", text |-> "Insufficient data for analysis"]]
    ELSE IF interval.outcome = "panic" \/ uplift.outcome = "panic"
    THEN [outcome |-> "panic", ret |-> Nil]
    ELSE [outcome |-> "returned",
          ret |-> [kind |-> "report",
                   ControlN |-> Len(t.ControlData),
                   ControlMean |-> FormatFloat(DistMean(t.ControlPost), 4),
                   TreatmentN |-> Len(t.TreatmentData),
                   TreatmentMean |-> FormatFloat(DistMean(t.TreatmentPost), 4),
                   Probability |-> FormatFloat(FMul(prob, FromInt(100)), 2),
                   ControlLoss |-> FormatFloat(loss[1], 4),
                   TreatmentLoss |-> FormatFloat(loss[2], 4),
                   Lower |-> FormatFloat(interval.ret[1], 4),
                   Upper |-> FormatFloat(interval.ret[2], 4),
                   UpliftMean |-> FormatFloat(FMul(uplift.ret[1], FromInt(100)), 2),
                   UpliftLower |-> FormatFloat(FMul(uplift.ret[2], FromInt(100)), 2),
                   UpliftUpper |-> FormatFloat(FMul(uplift.ret[3], FromInt(100)), 2),
                   Recommendation |-> getRecommendation(prob, loss[2])]]

\* What Summary can return in state t: each of its four statistics draws anew.
SummaryResults(t) ==
    IF NoPosterior(t) THEN {Summary(t, F(1, 2), <<Zero, Zero>>,
                  CredibleIntervalDifference(t, F(95, 100), <<>>, <<>>),
                  RelativeUplift(t, <<>>, <<>>))}
    ELSE {Summary(t, prob, loss, interval, uplift) :
            prob \in {ProbabilityOfImprovement(t, d[1], d[2]) : d \in PairedDraws(t)},
            loss \in {ExpectedLoss(t, d[1], d[2]) : d \in PairedDraws(t)},
            interval \in {CredibleIntervalDifference(t, F(95, 100), d[1], d[2]) :
                            d \in PairedDraws(t)},
            uplift \in {RelativeUplift(t, d[1], d[2]) : d \in PairedDraws(t)}}

\* The client of an ABTest asks for a statistic.  recv is the ABTest the call
\* is made on, arg the draws the call made.
CallProbabilityOfImprovement ==
    /\ \E d \in PairedDraws(ab) :
           last' = [op |-> "ProbabilityOfImprovement", recv |-> ab, arg |-> d,
                    after |-> d, outcome |-> "returned",
                    ret |-> ProbabilityOfImprovement(ab, d[1], d[2])]
    /\ UNCHANGED <<prior, nextAddr, sampleBuf, abVars>>

CallExpectedLoss ==
    /\ \E d \in PairedDraws(ab) :
           last' = [op |-> "ExpectedLoss", recv |-> ab, arg |-> d, after |-> d,
                    outcome |-> "returned", ret |-> ExpectedLoss(ab, d[1], d[2])]
    /\ UNCHANGED <<prior, nextAddr, sampleBuf, abVars>>

ConfidenceValues == {F(90, 100), F(95, 100), F(99, 100)}

CallCredibleIntervalDifference(confidence) ==
    /\ \E d \in PairedDraws(ab) :
           LET returns(r) ==
                   last' = [op |-> "CredibleIntervalDifference", recv |-> ab,
                            arg |-> d, after |-> <<confidence>>,
                            outcome |-> r.outcome, ret |-> r.ret]
           IN  returns(CredibleIntervalDifference(ab, confidence, d[1], d[2]))
    /\ UNCHANGED <<prior, nextAddr, sampleBuf, abVars>>

CallRelativeUplift ==
    /\ \E d \in PairedDraws(ab) :
           LET returns(r) ==
                   last' = [op |-> "RelativeUplift", recv |-> ab, arg |-> d,
                            after |-> d, outcome |-> r.outcome, ret |-> r.ret]
           IN  returns(RelativeUplift(ab, d[1], d[2]))
    /\ UNCHANGED <<prior, nextAddr, sampleBuf, abVars>>

CallSummary ==
    /\ \E r \in SummaryResults(ab) :
           last' = [op |-> "Summary", recv |-> ab, arg |-> <<>>, after |-> <<>>,
                    outcome |-> r.outcome, ret |-> r.ret]
    /\ UNCHANGED <<prior, nextAddr, sampleBuf, abVars>>

\* The ABTest the calls AddControlData(c) and AddTreatmentData(t) make of t0.
ABTestAfter(t0, c, t) ==
    LET addTreatment(t1) ==
            updatePosteriors([t1 EXCEPT !.TreatmentData = t1.TreatmentData \o t])
    IN  addTreatment(updatePosteriors([t0 EXCEPT !.ControlData = t0.ControlData \o c]))

StatBatches == {<<>>, <<F(2, 1)>>}

\* The statistics of an ABTest that has been given data.
InitStats ==
    /\ prior = Nil
    /\ last = NoCall
    /\ nextAddr = 1
    /\ sampleBuf = <<>>
    /\ ab0 \in {NewABTest}
               \cup {NewABTestWithPriors(c, t) : c \in ABPriors, t \in ABPriors}
    /\ added \in [control : StatBatches, treatment : StatBatches]
    /\ ab = ABTestAfter(ab0, added.control, added.treatment)

\* A statistic reads the ABTest and changes nothing in it, so what a second
\* query can return is what the first can: the client asks once.
NextStats ==
    /\ last.op = "none"
    /\ \/ CallProbabilityOfImprovement
       \/ CallExpectedLoss
       \/ \E confidence \in ConfidenceValues : CallCredibleIntervalDifference(confidence)
       \/ CallRelativeUplift
       \/ CallSummary

SpecStats == InitStats /\ [][NextStats]_vars

\* getRecommendation on its own.
ProbValues ==
    {F(0, 1), F(10, 100), F(19, 100), F(20, 100), F(21, 100), F(50, 100), F(80, 100),
     F(81, 100), F(90, 100), F(95, 100), F(96, 100), F(1, 1)}
LossValues ==
    {F(0, 1), F(5, 1000), F(99, 10000), F(1, 100), F(101, 10000), F(2, 100),
     F(1, 10), F(1, 2), F(1, 1)}

CallGetRecommendation(prob, treatmentLoss) ==
    /\ last' = [op |-> "getRecommendation", recv |-> Nil,
                arg |-> <<prob, treatmentLoss>>, after |-> <<prob, treatmentLoss>>,
                outcome |-> "returned", ret |-> getRecommendation(prob, treatmentLoss)]
    /\ UNCHANGED <<prior, nextAddr, sampleBuf, abVars>>

NextRecommendation ==
    \E prob \in ProbValues, treatmentLoss \in LossValues :
        CallGetRecommendation(prob, treatmentLoss)

SpecRecommendation == Init /\ [][NextRecommendation]_vars

----------------------------------------------------------------------------
(* Point estimates: Mode of a distribution and MAP of a posterior          *)
(* (part_003, part_004).                                                   *)

BetaModeStrict(b) ==
    IF FGt(b.Alpha, One) /\ FGt(b.Beta, One)
    THEN <<FDiv(FSub(b.Alpha, One), FSub(FAdd(b.Alpha, b.Beta), F(2, 1)))>>
    ELSE IF FLt(b.Alpha, One) /\ FLt(b.Beta, One) THEN <<Zero, One>>
    ELSE IF FLt(b.Alpha, One) /\ FGt(b.Beta, One) THEN <<Zero>>
    ELSE <<One>>

BetaMode(b) ==
    IF FGt(b.Alpha, One) /\ FGt(b.Beta, One)
    THEN <<FDiv(FSub(b.Alpha, One), FSub(FAdd(b.Alpha, b.Beta), F(2, 1)))>>
    ELSE IF FLt(b.Alpha, One) /\ FLt(b.Beta, One) THEN <<Zero, One>>
    ELSE IF FLt(b.Alpha, One) /\ FGe(b.Beta, One) THEN <<Zero>>
    ELSE <<One>>

NormalMode(n) == <<n.Mu>>

\* Mode through the Distribution interface; a posterior has the method of the
\* distribution it embeds.
Mode(d) ==
    IF d.kind \in {"Beta", "BetaPosterior"} THEN BetaMode(d) ELSE NormalMode(d)

BetaPosteriorMAP(bp) ==
    LET first(modes) == IF Len(modes) > 0 THEN modes[1] ELSE DistMean(bp)
    IN  first(Mode(bp))

NormalPosteriorMAP(np) == DistMean(np)

\* MAP through the Posterior interface.
MAP(post) ==
    IF post.kind = "BetaPosterior" THEN BetaPosteriorMAP(post)
    ELSE NormalPosteriorMAP(post)

\* The client asks the prior it holds for its modes.
CallMode ==
    /\ ~IsNil(prior)
    /\ last' = [op |-> "Mode", recv |-> prior, arg |-> <<>>, after |-> <<>>,
                outcome |-> "returned", ret |-> Mode(prior.val)]
    /\ UNCHANGED <<prior, nextAddr, sampleBuf, abVars>>

\* The client asks the posterior an update has just returned for its MAP.
CallMAP ==
    /\ last.op \in {"Update", "UpdateSingle"}
    /\ last' = [op |-> "MAP", recv |-> last.ret, arg |-> <<>>, after |-> <<>>,
                outcome |-> "returned", ret |-> MAP(last.ret.val)]
    /\ UNCHANGED <<prior, nextAddr, sampleBuf, abVars>>

NextPoint ==
    \/ Next
    \/ CallMode
    \/ CallMAP

SpecPoint == Init /\ [][NextPoint]_vars

----------------------------------------------------------------------------
(* Properties.  What the formulas need beyond the model: the parameter     *)
(* domains and the closed forms the claims state, written from the claims  *)
(* and not from the code.                                                  *)

ValidBeta(b) == FGt(b.Alpha, Zero) /\ FGt(b.Beta, Zero)

ValidNormalConjugate(nc) == FGt(nc.Sigma, Zero) /\ FGt(nc.KnownVariance, Zero)

\* k: the number of elements of data that are > 0.
Successes(data) == Cardinality({i \in 1..Len(data) : FGt(data[i], Zero)})

\* Beta(alpha + k, beta + n - k), the float64 expressions evaluated as written,
\* from left to right.
BetaClosedForm(b, data) ==
    [kind |-> "BetaPosterior",
     Alpha |-> FAdd(b.Alpha, FromInt(Successes(data))),
     Beta |-> FSub(FAdd(b.Beta, FromInt(Len(data))), FromInt(Successes(data)))]

\* tau' = 1/sigma0^2 + n/v
PosteriorPrecision(nc, data) ==
    FAdd(FDiv(One, FSq(nc.Sigma)), FDiv(FromInt(Len(data)), nc.KnownVariance))

\* mu' = (mu0/sigma0^2 + n*xbar/v) / tau'
PosteriorMean(nc, data) ==
    LET xbar == FDiv(FloatsSum(data, 1, Len(data)), FromInt(Len(data)))
    IN  FDiv(FAdd(FDiv(nc.Mu, FSq(nc.Sigma)),
                  FDiv(FMul(FromInt(Len(data)), xbar), nc.KnownVariance)),
             PosteriorPrecision(nc, data))

\* post is Normal(mu', sigma') with sigma' the positive root of 1/tau'.
IsNormalClosedForm(post, nc, data) ==
    /\ post.kind = "NormalPosterior"
    /\ post.Mu = PosteriorMean(nc, data)
    /\ post.Sigma.k \in {"fin", "sqrt"}
    /\ post.Sigma.n > 0
    /\ FSq(post.Sigma) = FDiv(One, PosteriorPrecision(nc, data))

\* C1: for a Beta prior with alpha > 0 and beta > 0, Update(data) returns the
\* posterior Beta(alpha + k, beta + n - k), k the number of data > 0, n = len(data).
C1_BetaUpdateExact ==
    (/\ last.op = "Update"
     /\ last.recv.val.kind = "Beta"
     /\ ValidBeta(last.recv.val))
    => /\ last.outcome = "returned"
       /\ last.ret.val = BetaClosedForm(last.recv.val, last.arg)

\* C1 witness: a valid Beta prior updated with a success and a negative failure.
C1_Witness ==
    /\ last.op = "Update"
    /\ last.recv.val.kind = "Beta"
    /\ ValidBeta(last.recv.val)
    /\ Len(last.arg) = 2
    /\ \E i \in 1..2 : FGt(last.arg[i], Zero)
    /\ \E i \in 1..2 : FLt(last.arg[i], Zero)
    /\ last.ret.val.Alpha = FAdd(last.recv.val.Alpha, One)

\* C2: UpdateSingle(x) returns a posterior with exactly the parameters of
\* Update([x]), for a Beta and for a NormalConjugate prior.
C2_UpdateSingleIsUpdate ==
    (last.op = "UpdateSingle")
    => /\ (last.recv.val.kind = "Beta" /\ ValidBeta(last.recv.val))
          => last.ret.val = BetaUpdate(last.recv.val, last.arg)
       /\ (last.recv.val.kind = "NormalConjugate"
           /\ ValidNormalConjugate(last.recv.val))
          => last.ret.val = NormalConjugateUpdate(last.recv.val, last.arg)

\* C3: for a NormalConjugate prior with sigma0 > 0 and knownVariance v > 0 and
\* non-empty data, Update returns Normal(mu', sigma') with tau' = 1/sigma0^2 + n/v,
\* mu' = (mu0/sigma0^2 + n*xbar/v)/tau' and sigma' = sqrt(1/tau').
C3_NormalUpdateClosedForm ==
    (/\ last.op = "Update"
     /\ last.recv.val.kind = "NormalConjugate"
     /\ ValidNormalConjugate(last.recv.val)
     /\ Len(last.arg) > 0)
    => /\ last.outcome = "returned"
       /\ IsNormalClosedForm(last.ret.val, last.recv.val, last.arg)

\* C3 witness: two observations with a non-zero mean, the posterior deviation irrational.
C3_Witness ==
    /\ last.op = "Update"
    /\ last.recv.val.kind = "NormalConjugate"
    /\ ValidNormalConjugate(last.recv.val)
    /\ Len(last.arg) = 2
    /\ last.arg[1] # last.arg[2]
    /\ last.ret.val.Sigma.k = "sqrt"

\* C4: NewBeta with alpha <= 0 or beta <= 0 and NewNormalConjugate with
\* sigma0 <= 0 or knownVariance <= 0 fail: no object carrying the invalid
\* parameters is returned, so the client never holds one.
C4_InvalidParametersRejected ==
    /\ (last.op = "NewBeta" /\ ~ValidBeta(NewBeta(last.arg[1], last.arg[2])))
       => last.outcome # "returned"
    /\ (last.op = "NewNormalConjugate"
        /\ ~ValidNormalConjugate(NewNormalConjugate(last.arg[1], last.arg[2], last.arg[3])))
       => last.outcome # "returned"
    /\ (~IsNil(prior) /\ prior.val.kind = "Beta") => ValidBeta(prior.val)
    /\ (~IsNil(prior) /\ prior.val.kind = "NormalConjugate")
       => ValidNormalConjugate(prior.val)

\* A value with a NaN in it.
HasNaN(v) ==
    IF v.kind \in {"Beta", "BetaPosterior"} THEN IsNaN(v.Alpha) \/ IsNaN(v.Beta)
    ELSE IsNaN(v.Mu) \/ IsNaN(v.Sigma)

\* C5: an empty data sequence handed to Beta.Update, NormalConjugate.Update or
\* ComputeSummary is rejected: the call fails, it returns no posterior, no
\* summary and nothing with a NaN in it.
C5_EmptyInputRejected ==
    (last.op \in {"Update", "ComputeSummary"} /\ Len(last.arg) = 0)
    => last.outcome # "returned"

\* The part of C5 the code does satisfy: ComputeSummary([]) panics.
C5_EmptySummaryPanics ==
    (last.op = "ComputeSummary" /\ Len(last.arg) = 0) => last.outcome = "panic"

\* The NaN of C5: NormalConjugate.Update([]) returns a posterior whose mean is NaN.
C5_EmptyNormalUpdateNoNaN ==
    (/\ last.op = "Update"
     /\ last.recv.val.kind = "NormalConjugate"
     /\ ValidNormalConjugate(last.recv.val)
     /\ Len(last.arg) = 0)
    => ~HasNaN(last.ret.val)

\* C6: ComputeSummary of a single sample v returns median, CI95 and CI99 bounds
\* all equal to v, and variance 0.
C6_SingleSample ==
    (last.op = "ComputeSummary" /\ Len(last.arg) = 1)
    => /\ last.outcome = "returned"
       /\ last.ret.Median = last.arg[1]
       /\ last.ret.CI95 = <<last.arg[1], last.arg[1]>>
       /\ last.ret.CI99 = <<last.arg[1], last.arg[1]>>
       /\ last.ret.Variance = Zero

\* The part of C6 the code does satisfy: the quantiles of a single sample.
C6_SingleSampleQuantiles ==
    (last.op = "ComputeSummary" /\ Len(last.arg) = 1)
    => /\ last.outcome = "returned"
       /\ last.ret.Median = last.arg[1]
       /\ last.ret.CI95 = <<last.arg[1], last.arg[1]>>
       /\ last.ret.CI99 = <<last.arg[1], last.arg[1]>>

\* The empirical quantile of the samples x at probability p, by its definition:
\* the least sample value v such that at least p * len(x) samples are <= v.
LeastCovering(p, x) ==
    LET n == Len(x)
        cnt == [i \in 1..n |-> Cardinality({j \in 1..n : FLe(x[j], x[i])})]
        ok == {i \in 1..n : FGe(FromInt(cnt[i]), FMul(p, FromInt(n)))}
    IN  x[CHOOSE i \in ok : \A j \in ok : FLe(x[i], x[j])]

\* C7 as stated: the median and the CI95/CI99 bounds are the quantiles by linear
\* interpolation between adjacent order statistics; for [1..100] the median is
\* 50.5 and CI95 is [3.475, 97.525].
C7_LinearInterpolation ==
    (last.op = "ComputeSummary" /\ last.outcome = "returned")
    => LET sorted == Sort(last.arg)
       IN  /\ last.ret.Median = LinearQuantile(F(1, 2), sorted)
           /\ last.ret.CI95 = <<LinearQuantile(F(25, 1000), sorted),
                                LinearQuantile(F(975, 1000), sorted)>>
           /\ last.ret.CI99 = <<LinearQuantile(F(5, 1000), sorted),
                                LinearQuantile(F(995, 1000), sorted)>>
           /\ (Len(last.arg) = 100 /\ last.arg = Seq100)
              => /\ last.ret.Median = F(505, 10)
                 /\ last.ret.CI95 = <<F(3475, 1000), F(97525, 1000)>>

\* What the code computes in place of C7: the median and the CI95/CI99 bounds without
\* interpolation: the quantile at p is the least sample with at least p * n
\* samples <= it, always one of the samples; for [1..100] the median is 50 and
\* CI95 is [3, 98].
C7_EmpiricalQuantiles ==
    (last.op = "ComputeSummary" /\ last.outcome = "returned")
    => /\ last.ret.Median = LeastCovering(F(1, 2), last.arg)
       /\ last.ret.CI95 = <<LeastCovering(F(25, 1000), last.arg),
                            LeastCovering(F(975, 1000), last.arg)>>
       /\ last.ret.CI99 = <<LeastCovering(F(5, 1000), last.arg),
                            LeastCovering(F(995, 1000), last.arg)>>
       /\ (Len(last.arg) = 100 /\ last.arg = Seq100)
          => /\ last.ret.Median = FromInt(50)
             /\ last.ret.CI95 = <<FromInt(3), FromInt(98)>>

\* The summary of [1..100] has been computed, with median 50.
C7_Witness ==
    /\ last.op = "ComputeSummary"
    /\ last.outcome = "returned"
    /\ Len(last.arg) = 100
    /\ last.arg = Seq100
    /\ last.ret.Median = FromInt(50)

\* C8: ComputeSummary leaves the caller's sequence as it was, value by value and
\* place by place, and Summary.Samples[i] is the i-th input sample.
C8_InputNotReordered ==
    (last.op = "ComputeSummary")
    => /\ last.after = last.arg
       /\ sampleBuf = last.arg
       /\ last.outcome = "returned"
          => /\ Len(last.ret.Samples) = Len(last.arg)
             /\ \A i \in 1..Len(last.arg) : last.ret.Samples[i] = last.arg[i]

\* C8 witness: a summary of a sequence that was not in ascending order.
C8_Witness ==
    /\ last.op = "ComputeSummary"
    /\ last.outcome = "returned"
    /\ \E i \in 1..(Len(last.arg) - 1) : FLt(last.arg[i + 1], last.arg[i])
    /\ last.ret.Samples = last.arg

\* post is what the claims' closed forms give for prior pr and data.
IsClosedForm(post, pr, data) ==
    IF pr.kind = "Beta"
    THEN post.kind = "BetaPosterior" /\ post = BetaClosedForm(pr, data)
    ELSE IsNormalClosedForm(post, pr, data)

\* C9: after any sequence of AddControlData and AddTreatmentData calls, each arm
\* holds all the data ever added to it, in call order, and an arm with at least
\* one datum has the posterior of its original prior applied once to all of that
\* data: for a Beta(alpha, beta) prior, Beta(alpha + K, beta + N - K).
C9_PosteriorFromOriginalPrior ==
    /\ ab.ControlData = added.control
    /\ ab.TreatmentData = added.treatment
    /\ Len(added.control) > 0
       => IsClosedForm(ab.ControlPost, ab0.ControlPrior, added.control)
    /\ Len(added.treatment) > 0
       => IsClosedForm(ab.TreatmentPost, ab0.TreatmentPrior, added.treatment)

\* C9 witness: a Beta control arm filled by more than one call, with successes and
\* failures, after the treatment arm got data too.
C9_Witness ==
    /\ ab0.ControlPrior.kind = "Beta"
    /\ Len(added.control) > 2
    /\ Successes(added.control) = 2
    /\ Len(added.treatment) > 0
    /\ ab.ControlPost.Alpha = FAdd(ab0.ControlPrior.Alpha, FromInt(2))

\* One call of Update or UpdateSingle: the prior is the same object with the same
\* fields after it, the posterior returned is an object allocated by this call,
\* and the same call as the one before returns the same parameters.
C10_Step ==
    (nextAddr' # nextAddr /\ last'.op \in {"Update", "UpdateSingle"})
    => /\ prior' = prior
       /\ last'.ret.kind = "obj"
       /\ last'.ret.addr >= nextAddr
       /\ last'.ret.addr # prior.addr
       /\ (last.op = last'.op /\ last.arg = last'.arg)
          => last'.ret.val = last.ret.val

\* C10: Update and UpdateSingle never change the prior they are called on, each
\* call returns a new posterior object, and two updates of the same prior with
\* the same data return the same posterior parameters.
C10_PriorNeverMutated == [][C10_Step]_vars

\* C10 witness: the same prior has been updated twice, the second posterior a
\* second new object.
C10_Witness ==
    /\ last.op = "Update"
    /\ Len(last.arg) > 0
    /\ nextAddr = 4
    /\ last.ret.addr = 3
    /\ prior.addr = 1
    /\ last.recv = prior

\* The statistics that draw: a call of one of them on an ABTest with both posteriors.
Drew(op) == last.op = op /\ ~NoPosterior(last.recv)

\* C11: with both posteriors present, ProbabilityOfImprovement is the number of
\* paired draws whose treatment sample is strictly greater than the control
\* sample over the number of paired draws; a tie is no win; the result is in [0, 1].
C11_WinFraction ==
    Drew("ProbabilityOfImprovement")
    => LET controlSamples == last.arg[1]
           treatmentSamples == last.arg[2]
           n == Len(controlSamples)
           wins == Cardinality({i \in 1..n :
                                  FGt(treatmentSamples[i], controlSamples[i])})
       IN  /\ n > 0
           /\ Len(treatmentSamples) = n
           /\ last.ret = FDiv(FromInt(wins), FromInt(n))
           /\ FGe(last.ret, Zero)
           /\ FLe(last.ret, One)

\* C11 witness: draws with a win and a tie among them.
C11_Witness ==
    /\ Drew("ProbabilityOfImprovement")
    /\ \E i \in 1..Len(last.arg[1]) : last.arg[2][i] = last.arg[1][i]
    /\ \E i \in 1..Len(last.arg[1]) : FGt(last.arg[2][i], last.arg[1][i])
    /\ FLt(last.ret, One)
    /\ FGt(last.ret, Zero)

\* max(x, 0)
PositivePart(x) == IF FGt(x, Zero) THEN x ELSE Zero

\* (1/N) * the sum of x
MeanOf(x) == FDiv(FloatsSum(x, 1, Len(x)), FromInt(Len(x)))

\* C12: with both posteriors present, ExpectedLoss returns controlLoss = the mean
\* of max(treatment_i - control_i, 0) and treatmentLoss = the mean of
\* max(control_i - treatment_i, 0); both are >= 0 and controlLoss - treatmentLoss
\* is the mean of treatment_i - control_i.
C12_ExpectedLossIsMeanPositivePart ==
    Drew("ExpectedLoss")
    => LET c == last.arg[1]
           t == last.arg[2]
           n == Len(c)
       IN  /\ last.ret[1] = MeanOf([i \in 1..n |-> PositivePart(FSub(t[i], c[i]))])
           /\ last.ret[2] = MeanOf([i \in 1..n |-> PositivePart(FSub(c[i], t[i]))])
           /\ FGe(last.ret[1], Zero)
           /\ FGe(last.ret[2], Zero)
           /\ FSub(last.ret[1], last.ret[2]) = MeanOf([i \in 1..n |-> FSub(t[i], c[i])])

\* C12 witness: draws of which one favours the treatment and one the control, by
\* different amounts.
C12_Witness ==
    /\ Drew("ExpectedLoss")
    /\ FGt(last.ret[1], Zero)
    /\ FGt(last.ret[2], Zero)
    /\ last.ret[1] # last.ret[2]

\* The uplifts of the draws whose control sample is > 0, in draw order.
KeptUplifts(c, t) ==
    LET kept == {i \in 1..Len(c) : FGt(c[i], Zero)}
        nth(k) == CHOOSE i \in kept : Cardinality({j \in kept : j < i}) = k - 1
    IN  [k \in 1..Cardinality(kept) |->
            FDiv(FSub(t[nth(k)], c[nth(k)]), c[nth(k)])]

\* C13: RelativeUplift leaves out every paired draw whose control sample is <= 0:
\* the mean and the bounds are taken over the uplifts of the other draws only,
\* nothing is divided by a control sample <= 0, and the call returns a defined
\* result whatever was drawn, also when every draw is left out.
C13_UpliftAlwaysDefined ==
    Drew("RelativeUplift")
    => LET kept == KeptUplifts(last.arg[1], last.arg[2])
       IN  /\ last.outcome = "returned"
           /\ \A k \in 1..3 : IsFin(last.ret[k])
           /\ Len(kept) > 0
              => /\ last.ret[1] = MeanOf(kept)
                 /\ \E i \in 1..Len(kept) : last.ret[2] = kept[i]
                 /\ \E i \in 1..Len(kept) : last.ret[3] = kept[i]

\* The part of C13 the code does satisfy: when a draw is kept, the result is
\* taken over the kept draws only.
C13_ExcludesNonPositiveControl ==
    (Drew("RelativeUplift") /\ Len(KeptUplifts(last.arg[1], last.arg[2])) > 0)
    => LET kept == KeptUplifts(last.arg[1], last.arg[2])
       IN  /\ last.outcome = "returned"
           /\ last.ret[1] = MeanOf(kept)
           /\ \E i \in 1..Len(kept) : last.ret[2] = kept[i]
           /\ \E i \in 1..Len(kept) : last.ret[3] = kept[i]

Strong == "Strong evidence favors treatment. Recommend implementation."
Moderate ==
    "Moderate evidence favors treatment. Consider implementation or continue testing."
FavorsControl == "Evidence favors control. Treatment likely inferior."
Inconclusive == "Insufficient evidence to make a recommendation. Continue testing."

\* C14: the recommendation is 'strong' iff prob > 0.95 and treatmentLoss < 0.01;
\* otherwise 'moderate' iff prob > 0.80; otherwise 'favors control' iff
\* prob < 0.20; otherwise 'inconclusive'.  One of the four is returned for every
\* input, and prob > 0.95 with treatmentLoss >= 0.01 gives 'moderate'.
C14_RecommendationOrder ==
    (last.op = "getRecommendation")
    => LET prob == last.arg[1]
           treatmentLoss == last.arg[2]
           strong == FGt(prob, F(95, 100)) /\ FLt(treatmentLoss, F(1, 100))
           moderate == ~strong /\ FGt(prob, F(80, 100))
           favorsControl == ~strong /\ ~moderate /\ FLt(prob, F(20, 100))
       IN  /\ last.ret \in {Strong, Moderate, FavorsControl, Inconclusive}
           /\ (last.ret = Strong) <=> strong
           /\ (last.ret = Moderate) <=> moderate
           /\ (last.ret = FavorsControl) <=> favorsControl
           /\ (last.ret = Inconclusive) <=> ~(strong \/ moderate \/ favorsControl)
           /\ (FGt(prob, F(95, 100)) /\ FGe(treatmentLoss, F(1, 100)))
              => last.ret = Moderate

\* C14 witness: prob > 0.95 with a treatment loss of exactly 0.01.
C14_Witness ==
    /\ last.op = "getRecommendation"
    /\ FGt(last.arg[1], F(95, 100))
    /\ last.arg[2] = F(1, 100)
    /\ last.ret = Moderate

\* An arm has no posterior exactly when it has no data.
PosteriorAbsentIffNoData ==
    /\ IsNil(ab.ControlPost) <=> (Len(ab.ControlData) = 0)
    /\ IsNil(ab.TreatmentPost) <=> (Len(ab.TreatmentData) = 0)

\* C17: an arm's posterior is absent iff the arm has no data (an empty batch
\* leaves it absent), and a statistic asked of an ABTest with an absent posterior
\* draws nothing and returns its default: ProbabilityOfImprovement 0.5,
\* ExpectedLoss (0, 0), CredibleIntervalDifference (0, 0), RelativeUplift
\* (0, 0, 0), Summary "Insufficient data for analysis".
C17_AbsentPosteriorDefaults ==
    /\ PosteriorAbsentIffNoData
    /\ (last.op # "none" /\ NoPosterior(last.recv))
       => /\ last.outcome = "returned"
          /\ last.op # "Summary" => last.arg = <<<<>>, <<>>>>
          /\ last.op = "ProbabilityOfImprovement" => last.ret = F(1, 2)
          /\ last.op = "ExpectedLoss" => last.ret = <<Zero, Zero>>
          /\ last.op = "CredibleIntervalDifference" => last.ret = <<Zero, Zero>>
          /\ last.op = "RelativeUplift" => last.ret = <<Zero, Zero, Zero>>
          /\ last.op = "Summary"
             => last.ret = [kind |-> "text", text |-> "Insufficient data for analysis"]

\* C17 witness: Summary asked of an ABTest whose control arm has data and a
\* posterior and whose treatment arm has neither.
C17_Witness ==
    /\ last.op = "Summary"
    /\ last.recv = ab
    /\ Len(ab.ControlData) > 0
    /\ ~IsNil(ab.ControlPost)
    /\ Len(ab.TreatmentData) = 0
    /\ IsNil(ab.TreatmentPost)
    /\ last.ret.kind = "text"

\* s is the beginning of t.
IsPrefix(s, t) == Len(s) <= Len(t) /\ SubSeq(t, 1, Len(s)) = s

\* One step of an ABTest: the priors stay, each arm's data only grows at its end,
\* and when one arm's data grows the other arm's data and posterior stay.
C18_Step ==
    /\ ab'.ControlPrior = ab.ControlPrior
    /\ ab'.TreatmentPrior = ab.TreatmentPrior
    /\ IsPrefix(ab.ControlData, ab'.ControlData)
    /\ IsPrefix(ab.TreatmentData, ab'.TreatmentData)
    /\ ab'.ControlData # ab.ControlData
       => /\ ab'.TreatmentData = ab.TreatmentData
          /\ ab'.TreatmentPost = ab.TreatmentPost
    /\ ab'.TreatmentData # ab.TreatmentData
       => /\ ab'.ControlData = ab.ControlData
          /\ ab'.ControlPost = ab.ControlPost

\* C18: AddControlData leaves TreatmentData, TreatmentPrior and the treatment
\* posterior's parameters as they were, AddTreatmentData the control arm's;
\* neither changes a prior, and an arm's data only grows by appending.
C18_ArmsIndependent == [][C18_Step]_vars

\* C18 witness: two arms with priors of different kinds, both given data, the
\* control arm after the treatment arm had its posterior.
C18_Witness ==
    /\ ab.ControlPrior.kind # ab.TreatmentPrior.kind
    /\ Len(ab.ControlData) > 1
    /\ Len(ab.TreatmentData) > 0
    /\ ~IsNil(ab.ControlPost)
    /\ ~IsNil(ab.TreatmentPost)
    /\ ab.ControlPrior = ab0.ControlPrior
    /\ ab.TreatmentPrior = ab0.TreatmentPrior

\* C16: for alpha > 0 and beta > 0, Beta.Mode() returns the interior mode
\* (alpha-1)/(alpha+beta-2) when alpha > 1 and beta > 1, the two modes {0, 1}
\* when alpha < 1 and beta < 1, the mode 0 when alpha < 1 and beta >= 1, and the
\* mode 1 in every other case; the cases exclude one another and the result is
\* never empty.
C16_ModeCases ==
    (last.op = "Mode" /\ last.recv.val.kind = "Beta" /\ ValidBeta(last.recv.val))
    => LET alpha == last.recv.val.Alpha
           beta == last.recv.val.Beta
           interior == FGt(alpha, One) /\ FGt(beta, One)
           bimodal == FLt(alpha, One) /\ FLt(beta, One)
           atZero == FLt(alpha, One) /\ FGe(beta, One)
       IN  /\ interior
              => last.ret = <<FDiv(FSub(alpha, One),
                                   FSub(FAdd(alpha, beta), FromInt(2)))>>
           /\ bimodal => last.ret = <<Zero, One>>
           /\ atZero => last.ret = <<Zero>>
           /\ ~(interior \/ bimodal \/ atZero) => last.ret = <<One>>
           /\ ~(interior /\ bimodal) /\ ~(interior /\ atZero) /\ ~(bimodal /\ atZero)
           /\ Len(last.ret) > 0

\* C16 witness: the mode of a Beta with alpha < 1 and beta = 1.
C16_Witness ==
    /\ last.op = "Mode"
    /\ last.recv.val.kind = "Beta"
    /\ FGt(last.recv.val.Alpha, Zero)
    /\ FLt(last.recv.val.Alpha, One)
    /\ last.recv.val.Beta = One
    /\ last.ret = <<Zero>>

\* The integer part of a finite value, towards zero.
TruncInt(a) ==
    IF a.e >= 0 THEN Sign(a.n) * ((Abs(a.n) * Pow2(a.e)) \div a.d)
    ELSE Sign(a.n) * (Abs(a.n) \div (a.d * Pow2(-a.e)))

\* a is a whole number >= 1.
IsWhole(a) == a.k = "fin" /\ a.d = 1 /\ a.e >= 0 /\ a.n > 0

RECURSIVE FPow(_, _)
FPow(x, k) == IF k = 0 THEN One ELSE FMul(x, FPow(x, k - 1))

\* The Beta(alpha, beta) density at x up to its constant factor,
\* x^(alpha-1) * (1-x)^(beta-1), for whole alpha and beta.
Density(bp, x) ==
    FMul(FPow(x, TruncInt(bp.Alpha) - 1), FPow(FSub(One, x), TruncInt(bp.Beta) - 1))

Rates == {Zero, F(1, 4), F(1, 3), F(1, 2), F(2, 3), F(3, 4), One}

\* m is a point of [0, 1] where the Beta(alpha, beta) density is largest (where
\* it is unbounded, when a shape is below 1).
IsDensityMaximum(bp, m) ==
    LET alpha == bp.Alpha
        beta == bp.Beta
    IN  IF FGt(alpha, One) /\ FGt(beta, One)
        THEN m = FDiv(FSub(alpha, One), FSub(FAdd(alpha, beta), FromInt(2)))
        ELSE IF alpha = One /\ beta = One THEN FGe(m, Zero) /\ FLe(m, One)
        ELSE IF FLt(alpha, One) /\ FLt(beta, One) THEN m \in {Zero, One}
        ELSE IF FLe(alpha, One) /\ FGe(beta, One) THEN m = Zero
        ELSE m = One

\* C15: for a Beta posterior with alpha' > 0 and beta' > 0, MAP() is the
\* posterior mode, a value of [0, 1] where the posterior density is maximal; for
\* a posterior with alpha' = 1 and beta' > 1 (only failures observed from
\* Beta(1, 1)) that is the rate 0.
C15_MAPIsPosteriorMode ==
    (/\ last.op = "MAP"
     /\ last.recv.val.kind = "BetaPosterior"
     /\ ValidBeta(last.recv.val))
    => /\ FGe(last.ret, Zero)
       /\ FLe(last.ret, One)
       /\ IsDensityMaximum(last.recv.val, last.ret)
       /\ (IsWhole(last.recv.val.Alpha) /\ IsWhole(last.recv.val.Beta))
          => \A x \in Rates :
                 FGe(Density(last.recv.val, last.ret), Density(last.recv.val, x))

\* The cases of C15 the code does satisfy: every valid Beta posterior but those
\* with alpha' = 1 and beta' > 1.
C15_MAPIsModeUnlessAlphaOne ==
    (/\ last.op = "MAP"
     /\ last.recv.val.kind = "BetaPosterior"
     /\ ValidBeta(last.recv.val)
     /\ ~(last.recv.val.Alpha = One /\ FGt(last.recv.val.Beta, One)))
    => /\ IsDensityMaximum(last.recv.val, last.ret)
       /\ (IsWhole(last.recv.val.Alpha) /\ IsWhole(last.recv.val.Beta))
          => \A x \in Rates :
                 FGe(Density(last.recv.val, last.ret), Density(last.recv.val, x))

====
